---------------------------- MODULE Spec2Model ----------------------------
(***************************************************************************)
(* Model of the Supabase bootstrap scripts:                                *)
(*   config.py                 SupabaseConfig and the module-level config  *)
(*   supabase_client.py        the two client constructors and the         *)
(*                             module-level anonymous client               *)
(*   download_supabase_data.py the schema snapshot script                  *)
(*                                                                         *)
(* Three specifications share the module:                                  *)
(*   SpecConfig    the configuration record as a pure value, over every    *)
(*                 environment                                             *)
(*   Spec          one Python process importing config and supabase_client *)
(*                 and calling their functions, the environment changing   *)
(*   SpecSnapshot  one run of download_supabase_data.main()                *)
(***************************************************************************)
EXTENDS Naturals, Sequences, FiniteSets

VARIABLES
    env,          \* os.environ: a partial function name -> string
    envChanges,   \* number of changes made to os.environ after start
    stage,        \* "start" | "config" | "client" | "failed": import progress
    config,       \* config.config, the module-level SupabaseConfig
    loadedFrom,   \* the environment SupabaseConfig.__init__ read (history)
    supabase,     \* supabase_client.supabase, the module-level client
    lastCall,     \* the latest call and what it did
    described,    \* the latest get_connection_info() result
    returned,     \* the client handles handed back to callers (history)
    pc,           \* download_supabase_data.main: position
    file,         \* env_config.txt on disk: "missing" or its lines
    envConfig,    \* main's local `config` (the dict load_env_config returned)
    client,       \* main's local `supabase`: TRUE once create_client returned
    tables_info,  \* get_database_tables: the list being built / returned
    probed,       \* the table names queried so far, in order (history)
    buckets_info, \* get_storage_buckets' result
    steps,        \* the steps main has entered, in order (history)
    artifacts     \* the files written by the run

procVars == <<env, envChanges, stage, config, loadedFrom, supabase, lastCall,
              described, returned>>
snapVars == <<pc, file, envConfig, client, tables_info, probed, buckets_info,
              steps, artifacts>>
vars == <<procVars, snapVars>>

-----------------------------------------------------------------------------
(* Bounds of the model. *)

\* how many times the environment is changed after the process started
MaxEnvChanges == 1
\* how many lines env_config.txt holds at most
MaxLines == 2

-----------------------------------------------------------------------------
(* Python values: None and str.  None is a value of its own, different from *)
(* every string, the string "None" included.                                *)

None == [none |-> TRUE, s |-> ""]
Str(s) == [none |-> FALSE, s |-> s]

\* bool(v) for v: Optional[str]
Truthy(v) == ~v.none /\ v.s # ""

\* the strings an environment variable is set to
EnvStrings == {"", "None", "k"}

EnvNames == {"SUPABASE_URL", "SUPABASE_ANON_KEY", "SUPABASE_SERVICE_ROLE_KEY",
             "SUPABASE_JWT_SECRET", "DATABASE_URL"}

\* the attribute each variable is stored in (config.py:15-19)
EnvVar == [url              |-> "SUPABASE_URL",
           anon_key         |-> "SUPABASE_ANON_KEY",
           service_role_key |-> "SUPABASE_SERVICE_ROLE_KEY",
           jwt_secret       |-> "SUPABASE_JWT_SECRET",
           database_url     |-> "DATABASE_URL"]

Fields == DOMAIN EnvVar

\* every environment: each variable unset or set to a string
AllEnvs == UNION {[D -> EnvStrings] : D \in SUBSET EnvNames}

\* os.getenv(name) with "None" as default: a plausible slip
getenv_strdefault(e, name) == IF name \in DOMAIN e THEN Str(e[name]) ELSE Str("None")

\* os.getenv(name): the value, or None when the variable is unset
getenv(e, name) == IF name \in DOMAIN e THEN Str(e[name]) ELSE None

\* SupabaseConfig.__init__
SupabaseConfig(e) == [f \in Fields |-> getenv(e, EnvVar[f])]

\* validate() over every field: a plausible slip
validate_allfields(cfg) == \A f \in Fields : Truthy(cfg[f])

\* SupabaseConfig.validate: all([self.url, self.anon_key])
validate(cfg) == Truthy(cfg.url) /\ Truthy(cfg.anon_key)

\* SupabaseConfig.get_connection_info
get_connection_info(cfg) ==
    [url              |-> cfg.url,
     anon_key         |-> cfg.anon_key,
     service_role_key |-> cfg.service_role_key,
     jwt_secret       |-> cfg.jwt_secret,
     database_url     |-> cfg.database_url]

\* the config variable before config.py has run
NoConfig == [f \in Fields |-> None]


-----------------------------------------------------------------------------
(* supabase_client.py *)

\* a client handle: the arguments create_client was given, and the config
\* attribute the credential was read from
Handle(url, key, credential) == [url |-> url, key |-> key, credential |-> credential]
NoHandle == Handle(None, None, "none")

\* what a call did: the exception it raised ("" for none), whether the
\* external factory was invoked, and the handle it returned
Outcome(raised, invoked, handle) ==
    [raised |-> raised, invoked |-> invoked, handle |-> handle]

\* supabase.create_client(url, key), the external factory: it returns a
\* client bound to its two arguments, or raises (ok = FALSE)
create_client(url, key, credential, ok) ==
    IF ok THEN Outcome("", TRUE, Handle(url, key, credential))
          ELSE Outcome("SupabaseException", TRUE, NoHandle)

\* create_supabase_client checking the url alone: a plausible slip
create_supabase_client_urlonly(cfg, ok) ==
    IF ~Truthy(cfg.url)
    THEN Outcome("ValueError", FALSE, NoHandle)
    ELSE create_client(cfg.url, cfg.anon_key, "anon_key", ok)

\* create_supabase_client()
create_supabase_client(cfg, ok) ==
    IF ~validate(cfg)
    THEN Outcome("ValueError", FALSE, NoHandle)
    ELSE create_client(cfg.url, cfg.anon_key, "anon_key", ok)

\* create_supabase_admin_client degrading to the anonymous key: a plausible slip
create_supabase_admin_client_fallback(cfg, ok) ==
    IF ~Truthy(cfg.service_role_key)
    THEN create_client(cfg.url, cfg.anon_key, "anon_key", ok)
    ELSE create_client(cfg.url, cfg.service_role_key, "service_role_key", ok)

\* create_supabase_admin_client passing the anonymous key: a plausible slip
create_supabase_admin_client_anonkey(cfg, ok) ==
    IF ~Truthy(cfg.service_role_key)
    THEN Outcome("ValueError", FALSE, NoHandle)
    ELSE create_client(cfg.url, cfg.anon_key, "anon_key", ok)

\* create_supabase_admin_client without its check: a plausible slip
create_supabase_admin_client_nocheck(cfg, ok) ==
    create_client(cfg.url, cfg.service_role_key, "service_role_key", ok)

\* create_supabase_admin_client()
create_supabase_admin_client(cfg, ok) ==
    IF ~Truthy(cfg.service_role_key)
    THEN Outcome("ValueError", FALSE, NoHandle)
    ELSE create_client(cfg.url, cfg.service_role_key, "service_role_key", ok)

-----------------------------------------------------------------------------
(* One Python process. *)

Call(op, out, value) ==
    [op |-> op, raised |-> out.raised, invoked |-> out.invoked,
     handle |-> out.handle, value |-> value]

NoCall == Call("none", Outcome("", FALSE, NoHandle), FALSE)

\* the values a variable takes in Spec; the two variables no client
\* constructor reads are kept to one string
ProcessStrings(name) ==
    IF name \in {"SUPABASE_JWT_SECRET", "DATABASE_URL"} THEN {"k"} ELSE EnvStrings

ProcessEnvs == {e \in AllEnvs : \A n \in DOMAIN e : e[n] \in ProcessStrings(n)}

\* the snapshot script is not running
SnapIdle ==
    /\ pc = "idle"
    /\ file = [exists |-> FALSE, lines |-> <<>>]
    /\ envConfig = <<>>
    /\ client = FALSE
    /\ tables_info = <<>>
    /\ probed = <<>>
    /\ buckets_info = <<>>
    /\ steps = <<>>
    /\ artifacts = {}

ProcInit(envs) ==
    /\ env \in envs
    /\ envChanges = 0
    /\ stage = "start"
    /\ config = NoConfig
    /\ loadedFrom = <<>>
    /\ supabase = NoHandle
    /\ lastCall = NoCall
    /\ described = NoConfig
    /\ returned = {}

\* `import config`: load_dotenv() has filled the environment, and the
\* module-level SupabaseConfig() reads it
ImportConfig ==
    /\ stage = "start"
    /\ stage' = "config"
    /\ config' = SupabaseConfig(env)
    /\ loadedFrom' = env
    /\ lastCall' = Call("SupabaseConfig", Outcome("", FALSE, NoHandle), FALSE)
    /\ UNCHANGED <<env, envChanges, supabase, described, returned>>
    /\ UNCHANGED snapVars

\* config.validate() re-reading the environment: a plausible slip
ValidateReloading ==
    /\ stage # "start"
    /\ config' = SupabaseConfig(env)
    /\ lastCall' = Call("validate", Outcome("", FALSE, NoHandle), validate(config'))
    /\ UNCHANGED <<env, envChanges, stage, loadedFrom, supabase, described, returned>>
    /\ UNCHANGED snapVars

\* config.validate()
Validate ==
    /\ stage # "start"
    /\ lastCall' = Call("validate", Outcome("", FALSE, NoHandle), validate(config))
    /\ UNCHANGED <<env, envChanges, stage, config, loadedFrom, supabase, described,
                   returned>>
    /\ UNCHANGED snapVars

\* config.get_connection_info()
GetConnectionInfo ==
    /\ stage # "start"
    /\ described' = get_connection_info(config)
    /\ lastCall' = Call("get_connection_info", Outcome("", FALSE, NoHandle), FALSE)
    /\ UNCHANGED <<env, envChanges, stage, config, loadedFrom, supabase, returned>>
    /\ UNCHANGED snapVars

\* `import supabase_client` with the module-level client creation guarded by
\* try/except: a plausible slip
ImportClientModuleGuarded ==
    /\ stage \in {"start", "config", "failed"}
    /\ \E ok \in BOOLEAN :
         LET cfg == IF stage = "start" THEN SupabaseConfig(env) ELSE config
             out == create_supabase_client(cfg, ok)
         IN  /\ config' = cfg
             /\ loadedFrom' = IF stage = "start" THEN env ELSE loadedFrom
             /\ lastCall' = Call("import supabase_client", out, FALSE)
             /\ stage' = "client"
             /\ supabase' = out.handle
             /\ returned' = IF out.raised = ""
                            THEN returned \cup {[fn |-> "create_supabase_client",
                                                 handle |-> out.handle]}
                            ELSE returned
    /\ UNCHANGED <<env, envChanges, described>>
    /\ UNCHANGED snapVars

\* `import supabase_client`: imports config (constructing it when this is
\* its first import), defines the two functions and runs
\* supabase = create_supabase_client(); an exception there fails the import
\* and leaves no module, so neither function can be called.  A failed import
\* may be tried again.
ImportClientModule ==
    /\ stage \in {"start", "config", "failed"}
    /\ \E ok \in BOOLEAN :
         LET cfg == IF stage = "start" THEN SupabaseConfig(env) ELSE config
             out == create_supabase_client(cfg, ok)
         IN  /\ config' = cfg
             /\ loadedFrom' = IF stage = "start" THEN env ELSE loadedFrom
             /\ lastCall' = Call("import supabase_client", out, FALSE)
             /\ IF out.raised = ""
                THEN /\ stage' = "client"
                     /\ supabase' = out.handle
                     /\ returned' = returned \cup {[fn |-> "create_supabase_client",
                                                    handle |-> out.handle]}
                ELSE /\ stage' = "failed"
                     /\ UNCHANGED <<supabase, returned>>
    /\ UNCHANGED <<env, envChanges, described>>
    /\ UNCHANGED snapVars

\* a caller's supabase_client.create_supabase_client()
CreateSupabaseClient ==
    /\ stage = "client"
    /\ \E ok \in BOOLEAN :
         LET out == create_supabase_client(config, ok)
         IN  /\ lastCall' = Call("create_supabase_client", out, FALSE)
             /\ returned' = IF out.raised = ""
                            THEN returned \cup {[fn |-> "create_supabase_client",
                                                 handle |-> out.handle]}
                            ELSE returned
    /\ UNCHANGED <<env, envChanges, stage, config, loadedFrom, supabase, described>>
    /\ UNCHANGED snapVars

\* a caller's supabase_client.create_supabase_admin_client()
CreateSupabaseAdminClient ==
    /\ stage = "client"
    /\ \E ok \in BOOLEAN :
         LET out == create_supabase_admin_client(config, ok)
         IN  /\ lastCall' = Call("create_supabase_admin_client", out, FALSE)
             /\ returned' = IF out.raised = ""
                            THEN returned \cup {[fn |-> "create_supabase_admin_client",
                                                 handle |-> out.handle]}
                            ELSE returned
    /\ UNCHANGED <<env, envChanges, stage, config, loadedFrom, supabase, described>>
    /\ UNCHANGED snapVars

\* os.environ changed while the process runs: a variable set or unset
EnvChange ==
    /\ envChanges < MaxEnvChanges
    /\ envChanges' = envChanges + 1
    /\ \E n \in EnvNames :
         \/ \E s \in ProcessStrings(n) :
              /\ ~(n \in DOMAIN env /\ env[n] = s)
              /\ env' = [m \in DOMAIN env \cup {n} |-> IF m = n THEN s ELSE env[m]]
         \/ /\ n \in DOMAIN env
            /\ env' = [m \in DOMAIN env \ {n} |-> env[m]]
    /\ UNCHANGED <<stage, config, loadedFrom, supabase, lastCall, described, returned>>
    /\ UNCHANGED snapVars

Init == ProcInit(ProcessEnvs) /\ SnapIdle

Next ==
    \/ ImportConfig
    \/ Validate
    \/ GetConnectionInfo
    \/ ImportClientModule
    \/ CreateSupabaseClient
    \/ CreateSupabaseAdminClient
    \/ EnvChange

Spec == Init /\ [][Next]_vars

\* the configuration record alone, over every environment
InitConfig == ProcInit(AllEnvs) /\ SnapIdle

NextConfig ==
    \/ ImportConfig
    \/ Validate
    \/ GetConnectionInfo

SpecConfig == InitConfig /\ [][NextConfig]_vars

-----------------------------------------------------------------------------
(* download_supabase_data.py *)

\* a line of env_config.txt after strip(): empty, a # comment, KEY=VALUE, or
\* text without "="
Blank == [kind |-> "blank", key |-> "", value |-> ""]
Comment == [kind |-> "comment", key |-> "", value |-> ""]
NoEq == [kind |-> "noeq", key |-> "", value |-> ""]
KV(k, v) == [kind |-> "kv", key |-> k, value |-> v]

Lines == {Blank, Comment, NoEq,
          KV("SUPABASE_URL", ""), KV("SUPABASE_URL", "u"),
          KV("SUPABASE_SERVICE_ROLE_KEY", ""), KV("SUPABASE_SERVICE_ROLE_KEY", "s")}

SeqsUpTo(S, n) == UNION {[1..m -> S] : m \in 0..n}

NoFile == [exists |-> FALSE, lines |-> <<>>]
Files == {NoFile} \cup {[exists |-> TRUE, lines |-> ls] : ls \in SeqsUpTo(Lines, MaxLines)}

\* the loop of load_env_config over the lines from the i-th on: the dict so
\* far, or the ValueError of unpacking a line without "="
RECURSIVE read_lines(_, _, _)
read_lines(ls, i, d) ==
    IF i > Len(ls) THEN [raised |-> FALSE, config |-> d]
    ELSE LET line == ls[i] IN
         IF line.kind \in {"blank", "comment"} THEN read_lines(ls, i + 1, d)
         ELSE IF line.kind = "noeq" THEN [raised |-> TRUE, config |-> <<>>]
         ELSE read_lines(ls, i + 1,
                  [k \in DOMAIN d \cup {line.key} |->
                      IF k = line.key THEN line.value ELSE d[k]])

\* load_env_config(): {} when the file is missing
load_env_config(f) ==
    IF ~f.exists THEN [raised |-> FALSE, config |-> <<>>]
    ELSE read_lines(f.lines, 1, <<>>)

\* dict.get(key)
Get(d, key) == IF key \in DOMAIN d THEN Str(d[key]) ELSE None

\* main's two early returns on the loaded configuration
Lacking(d) ==
    \/ DOMAIN d = {}
    \/ ~Truthy(Get(d, "SUPABASE_URL"))
    \/ ~Truthy(Get(d, "SUPABASE_SERVICE_ROLE_KEY"))

\* test_supabase_connection reporting the failure: a plausible slip
test_supabase_connection_strict(ok) == ok

\* test_supabase_connection(supabase): True also when list_users raised
test_supabase_connection(ok) == TRUE

common_tables == <<"profiles", "users", "posts", "comments", "settings">>

\* what supabase.table(name).select('*').limit(1).execute() does: it raises,
\* or returns a response whose data is None or a list of rows
Raises == [kind |-> "exception", data |-> <<>>]
DataNone == [kind |-> "none", data |-> <<>>]
Data(rows) == [kind |-> "data", data |-> rows]
ProbeOutcomes == {Raises, DataNone, Data(<<>>), Data(<<"r1">>), Data(<<"r1", "r2">>)}

\* response.data[:1]
FirstRow(rows) == IF Len(rows) = 0 THEN <<>> ELSE <<rows[1]>>

\* one iteration without the inner try/except: a plausible slip
probe_table_uncaught(info, table_name, outcome) ==
    IF outcome.kind = "exception" THEN [escaped |-> TRUE, info |-> info]
    ELSE IF outcome.kind = "data"
    THEN [escaped |-> FALSE,
          info |-> Append(info, [table_name |-> table_name, exists |-> TRUE,
                                 sample_data |-> FirstRow(outcome.data)])]
    ELSE [escaped |-> FALSE, info |-> info]

\* one iteration of get_database_tables' loop: the new tables_info, and
\* whether an exception left the loop for the outer handler
probe_table(info, table_name, outcome) ==
    IF outcome.kind = "exception" THEN [escaped |-> FALSE, info |-> info]
    ELSE IF outcome.kind = "data"
    THEN [escaped |-> FALSE,
          info |-> Append(info, [table_name |-> table_name, exists |-> TRUE,
                                 sample_data |-> FirstRow(outcome.data)])]
    ELSE [escaped |-> FALSE, info |-> info]

AllSteps == <<"connection_test", "table_probing", "bucket_listing", "schema_save",
              "env_creation", "example_function">>

\* config.py and supabase_client.py are not part of the script's run
ProcIdle ==
    /\ env = <<>>
    /\ envChanges = 0
    /\ stage = "start"
    /\ config = NoConfig
    /\ loadedFrom = <<>>
    /\ supabase = NoHandle
    /\ lastCall = NoCall
    /\ described = NoConfig
    /\ returned = {}

SnapInit ==
    /\ ProcIdle
    /\ pc = "start"
    /\ file \in Files
    /\ envConfig = <<>>
    /\ client = FALSE
    /\ tables_info = <<>>
    /\ probed = <<>>
    /\ buckets_info = <<>>
    /\ steps = <<>>
    /\ artifacts = {}

\* main, lines 169-183: load the configuration and return when it is empty
\* or lacks the url or the service key
LoadEnvConfig ==
    /\ pc = "start"
    /\ LET r == load_env_config(file) IN
         /\ envConfig' = r.config
         /\ pc' = IF r.raised THEN "raised"
                  ELSE IF Lacking(r.config) THEN "returned"
                  ELSE "create"
    /\ UNCHANGED <<file, client, tables_info, probed, buckets_info, steps, artifacts>>
    /\ UNCHANGED procVars

\* main, lines 186-191: create_client(url, service_key), return when it raises
CreateClient ==
    /\ pc = "create"
    /\ \E ok \in BOOLEAN :
         /\ client' = ok
         /\ pc' = IF ok THEN "test" ELSE "returned"
    /\ UNCHANGED <<file, envConfig, tables_info, probed, buckets_info, steps, artifacts>>
    /\ UNCHANGED procVars

\* main, lines 194-195
TestConnection ==
    /\ pc = "test"
    /\ steps' = Append(steps, "connection_test")
    /\ \E ok \in BOOLEAN :
         pc' = IF test_supabase_connection(ok) THEN "tables" ELSE "returned"
    /\ UNCHANGED <<file, envConfig, client, tables_info, probed, buckets_info, artifacts>>
    /\ UNCHANGED procVars

\* get_database_tables: one query of the loop; after the last one, or when
\* the outer handler takes over, the function returns to main
ProbeTable ==
    /\ pc = "tables"
    /\ Len(probed) < Len(common_tables)
    /\ \E outcome \in ProbeOutcomes :
         LET table_name == common_tables[Len(probed) + 1]
             r == probe_table(tables_info, table_name, outcome)
         IN  /\ probed' = Append(probed, [table_name |-> table_name, outcome |-> outcome])
             /\ tables_info' = IF r.escaped THEN <<>> ELSE r.info
             /\ pc' = IF r.escaped \/ Len(probed') = Len(common_tables)
                      THEN "buckets" ELSE "tables"
    /\ steps' = IF probed = <<>> THEN Append(steps, "table_probing") ELSE steps
    /\ UNCHANGED <<file, envConfig, client, buckets_info, artifacts>>
    /\ UNCHANGED procVars

\* get_storage_buckets: the listed buckets, [] when listing raised
GetStorageBuckets ==
    /\ pc = "buckets"
    /\ steps' = Append(steps, "bucket_listing")
    /\ \E r \in {<<>>, <<"bucket">>} : buckets_info' = r
    /\ pc' = "save"
    /\ UNCHANGED <<file, envConfig, client, tables_info, probed, artifacts>>
    /\ UNCHANGED procVars

\* save_database_schema: writes database_schema.json, or reports the failure
SaveDatabaseSchema ==
    /\ pc = "save"
    /\ steps' = Append(steps, "schema_save")
    /\ \E ok \in BOOLEAN :
         artifacts' = IF ok THEN artifacts \cup {"database_schema.json"} ELSE artifacts
    /\ pc' = "env"
    /\ UNCHANGED <<file, envConfig, client, tables_info, probed, buckets_info>>
    /\ UNCHANGED procVars

\* create_env_file: copies env_config.txt to .env, or reports the failure
CreateEnvFile ==
    /\ pc = "env"
    /\ steps' = Append(steps, "env_creation")
    /\ \E ok \in BOOLEAN :
         artifacts' = IF ok /\ file.exists THEN artifacts \cup {".env"} ELSE artifacts
    /\ pc' = "fn"
    /\ UNCHANGED <<file, envConfig, client, tables_info, probed, buckets_info>>
    /\ UNCHANGED procVars

\* create_example_edge_function: mkdir (outside any try) may raise; index.ts
\* is written when it does not exist, a failed write is reported
CreateExampleEdgeFunction ==
    /\ pc = "fn"
    /\ steps' = Append(steps, "example_function")
    /\ \E r \in {"mkdir_raises", "exists", "written", "write_failed"} :
         /\ pc' = IF r = "mkdir_raises" THEN "raised" ELSE "done"
         /\ artifacts' = IF r = "written" THEN artifacts \cup {"index.ts"} ELSE artifacts
    /\ UNCHANGED <<file, envConfig, client, tables_info, probed, buckets_info>>
    /\ UNCHANGED procVars

SnapNext ==
    \/ LoadEnvConfig
    \/ CreateClient
    \/ TestConnection
    \/ ProbeTable
    \/ GetStorageBuckets
    \/ SaveDatabaseSchema
    \/ CreateEnvFile
    \/ CreateExampleEdgeFunction

SpecSnapshot == SnapInit /\ [][SnapNext]_vars

-----------------------------------------------------------------------------
(* The properties. *)

\* a field that is present: neither None nor the empty string
NonEmpty(v) == v # None /\ v # Str("")

\* an environment variable that is set to a non-empty string
SetNonEmpty(e, name) == name \in DOMAIN e /\ e[name] # ""

IsValid(cfg) == NonEmpty(cfg.url) /\ NonEmpty(cfg.anon_key)

AnonHandles == {r.handle : r \in {x \in returned : x.fn = "create_supabase_client"}}
AdminHandles == {r.handle : r \in {x \in returned : x.fn = "create_supabase_admin_client"}}

\* C1: validate() returns true exactly when SUPABASE_URL and
\* SUPABASE_ANON_KEY are both set to non-empty strings, whatever the other
\* three variables are (unset, empty or non-empty).
C1_ValidateIffUrlAndAnonKey ==
    lastCall.op = "validate" =>
        (lastCall.value <=> (/\ SetNonEmpty(env, "SUPABASE_URL")
                             /\ SetNonEmpty(env, "SUPABASE_ANON_KEY")))

\* validate() answered true with the service key unset, the JWT secret
\* empty and the database url unset
C1_Witness ==
    /\ lastCall.op = "validate"
    /\ lastCall.value
    /\ "SUPABASE_SERVICE_ROLE_KEY" \notin DOMAIN env
    /\ "SUPABASE_JWT_SECRET" \in DOMAIN env /\ env["SUPABASE_JWT_SECRET"] = ""
    /\ "DATABASE_URL" \notin DOMAIN env

\* C2: create_supabase_client() on a record that is not valid raises the
\* configuration error (ValueError) without invoking the external factory
\* and returns no handle: no anonymous handle exists in the process.
C2_AnonClientFailsOnInvalid ==
    (/\ lastCall.op \in {"import supabase_client", "create_supabase_client"}
     /\ ~IsValid(config))
    => /\ lastCall.raised = "ValueError"
       /\ ~lastCall.invoked
       /\ lastCall.handle = NoHandle
       /\ AnonHandles = {}
       /\ supabase = NoHandle

\* the call was made with the url present and the anonymous key unset
C2_Witness ==
    /\ lastCall.op = "import supabase_client"
    /\ NonEmpty(config.url)
    /\ config.anon_key = None
    /\ lastCall.raised = "ValueError"

\* C3: create_supabase_admin_client() with service_role_key absent or empty
\* raises the configuration error (ValueError), also when url and anon_key
\* are present; it invokes no factory and never hands back a client built
\* from anon_key.
C3_AdminClientFailsWithoutServiceKey ==
    /\ (/\ lastCall.op = "create_supabase_admin_client"
        /\ ~NonEmpty(config.service_role_key))
       => /\ lastCall.raised = "ValueError"
          /\ ~lastCall.invoked
          /\ lastCall.handle = NoHandle
          /\ AdminHandles = {}
    /\ \A h \in AdminHandles : h.credential # "anon_key"

\* the admin call failed on a valid record
C3_Witness ==
    /\ lastCall.op = "create_supabase_admin_client"
    /\ IsValid(config)
    /\ config.service_role_key = None
    /\ lastCall.raised = "ValueError"

\* C4: every handle handed back by either constructor was built from a
\* non-empty url and a non-empty credential, and a call on a record lacking
\* the url or the needed key raises instead of returning a handle.
C4_NoDegradedClient ==
    /\ \A r \in returned : NonEmpty(r.handle.url) /\ NonEmpty(r.handle.key)
    /\ stage = "client" => NonEmpty(supabase.url) /\ NonEmpty(supabase.key)
    /\ (/\ lastCall.op \in {"import supabase_client", "create_supabase_client"}
        /\ (~NonEmpty(config.url) \/ ~NonEmpty(config.anon_key)))
       => lastCall.raised # "" /\ lastCall.handle = NoHandle
    /\ (/\ lastCall.op = "create_supabase_admin_client"
        /\ (~NonEmpty(config.url) \/ ~NonEmpty(config.service_role_key)))
       => lastCall.raised # "" /\ lastCall.handle = NoHandle

\* both constructors have handed back a handle
C4_Witness ==
    /\ AnonHandles # {}
    /\ AdminHandles # {}
    /\ lastCall.op = "create_supabase_admin_client"
    /\ lastCall.raised = ""

\* C5: with url, anon_key and service_role_key all present, the anonymous
\* constructor passes (url, anon_key) and the admin constructor passes
\* (url, service_role_key) to the factory: same url, the anonymous handle's
\* credential read from anon_key and the admin handle's from
\* service_role_key.
C5_CredentialScopes ==
    (/\ NonEmpty(config.url)
     /\ NonEmpty(config.anon_key)
     /\ NonEmpty(config.service_role_key))
    => /\ \A h \in AnonHandles :
            /\ h.url = config.url
            /\ h.key = config.anon_key
            /\ h.credential = "anon_key"
            /\ config.anon_key # config.service_role_key
                  => h.key # config.service_role_key
       /\ \A h \in AdminHandles :
            /\ h.url = config.url
            /\ h.key = config.service_role_key
            /\ h.credential = "service_role_key"
            /\ config.anon_key # config.service_role_key
                  => h.key # config.anon_key
       /\ (lastCall.op = "create_supabase_admin_client" /\ lastCall.raised = "")
            => lastCall.handle = Handle(config.url, config.service_role_key,
                                        "service_role_key")
       /\ (lastCall.op = "create_supabase_client" /\ lastCall.raised = "")
            => lastCall.handle = Handle(config.url, config.anon_key, "anon_key")

\* both handles exist on a record whose two keys differ
C5_Witness ==
    /\ AnonHandles # {}
    /\ AdminHandles # {}
    /\ config.anon_key = Str("k")
    /\ config.service_role_key = Str("None")

\* C6: SupabaseConfig() followed by get_connection_info() gives a mapping
\* with exactly the five field names, each set variable's own string, and
\* None (never the string "None" or "undefined") for each unset variable;
\* the construction raises nothing.
C6_LoadDescribeRoundTrip ==
    /\ lastCall.op = "get_connection_info" =>
         /\ DOMAIN described =
              {"url", "anon_key", "service_role_key", "jwt_secret", "database_url"}
         /\ \A f \in DOMAIN described :
              IF EnvVar[f] \in DOMAIN env
              THEN described[f] = Str(env[EnvVar[f]])
              ELSE /\ described[f] = None
                   /\ described[f] \notin {Str("None"), Str("undefined")}
    /\ lastCall.op = "SupabaseConfig" => lastCall.raised = ""

\* described: one variable unset, one set to the string "None", one empty
C6_Witness ==
    /\ lastCall.op = "get_connection_info"
    /\ "SUPABASE_URL" \notin DOMAIN env
    /\ described.url = None
    /\ described.anon_key = Str("None")
    /\ described.jwt_secret = Str("")

\* C7: after construction the record holds, in every state, the values read
\* from the environment at construction time, whatever was called since and
\* however the environment changed since.
C7_ConfigNeverMutated ==
    stage # "start" =>
        \A f \in Fields :
            config[f] = IF EnvVar[f] \in DOMAIN loadedFrom
                        THEN Str(loadedFrom[EnvVar[f]])
                        ELSE None

\* the environment's url changed after construction, calls were made, and
\* the record still holds the old url
C7_Witness ==
    /\ stage = "client"
    /\ lastCall.op = "validate"
    /\ AdminHandles # {}
    /\ getenv(env, "SUPABASE_URL") # getenv(loadedFrom, "SUPABASE_URL")
    /\ config.url = getenv(loadedFrom, "SUPABASE_URL")

\* C10: the anonymous client is built when supabase_client is imported: on
\* an invalid record the import fails with the configuration error and no
\* admin client is ever created, service_role_key present or not; every
\* admin client is created after the module-level anonymous client was
\* built on a valid record.
C10_AdminOnlyAfterModuleClient ==
    /\ (stage # "start" /\ ~IsValid(config))
       => /\ stage # "client"
          /\ AdminHandles = {}
          /\ supabase = NoHandle
          /\ lastCall.op # "create_supabase_admin_client"
          /\ lastCall.op = "import supabase_client" => lastCall.raised = "ValueError"
    /\ (AdminHandles # {} \/ lastCall.op = "create_supabase_admin_client")
       => /\ stage = "client"
          /\ IsValid(config)
          /\ supabase = Handle(config.url, config.anon_key, "anon_key")
          /\ supabase \in AnonHandles

\* the import failed on an invalid record that holds a service key
C10_Witness ==
    /\ stage = "failed"
    /\ lastCall.op = "import supabase_client"
    /\ lastCall.raised = "ValueError"
    /\ NonEmpty(config.service_role_key)
    /\ NonEmpty(config.url)

\* the probes so far whose response carried data (not None)
Succeeded == SelectSeq(probed, LAMBDA p : p.outcome.kind = "data")

\* main is past get_database_tables
AfterTables == pc \in {"buckets", "save", "env", "fn", "done"} \/ (pc = "raised" /\ client)

\* C8: get_database_tables queries the five tables once each, in list
\* order, whatever the earlier queries did; it never raises; and it returns,
\* in list order, one entry {table_name, exists = true, sample_data of at
\* most one row} per table whose response carried data, and none for a
\* table whose query raised or whose data was None.
C8_BestEffortEnumeration ==
    /\ Len(probed) <= 5
    /\ \A i \in 1..Len(probed) :
         probed[i].table_name = <<"profiles", "users", "posts", "comments", "settings">>[i]
    /\ AfterTables => Len(probed) = 5
    /\ Len(tables_info) = Len(Succeeded)
    /\ \A i \in 1..Len(tables_info) :
         /\ DOMAIN tables_info[i] = {"table_name", "exists", "sample_data"}
         /\ tables_info[i].table_name = Succeeded[i].table_name
         /\ tables_info[i].exists = TRUE
         /\ Len(tables_info[i].sample_data) <= 1
         /\ tables_info[i].sample_data =
              SubSeq(Succeeded[i].outcome.data, 1,
                     IF Len(Succeeded[i].outcome.data) = 0 THEN 0 ELSE 1)
    /\ (pc = "raised" /\ client) => steps[Len(steps)] = "example_function"

\* the function returned after a query that raised, one with two rows, one
\* with data None, one with no rows and one with a single row
C8_Witness ==
    /\ pc = "buckets"
    /\ Len(probed) = 5
    /\ probed[1].outcome = Raises
    /\ probed[2].outcome = Data(<<"r1", "r2">>)
    /\ probed[3].outcome = DataNone
    /\ probed[4].outcome = Data(<<>>)
    /\ probed[5].outcome = Data(<<"r1">>)
    /\ Len(tables_info) = 3

IsPrefix(s, t) == Len(s) <= Len(t) /\ \A i \in 1..Len(s) : s[i] = t[i]

\* C9: main returns early, having probed nothing and written nothing, when
\* the loaded configuration is empty or lacks the url or the service key, or
\* when the client cannot be created; once the client exists the run enters
\* connection test, table probing, bucket listing, schema save, .env
\* creation and example-function creation in that order, none of them
\* stopping a later one.
C9_MainStepOrder ==
    /\ ~client =>
         /\ steps = <<>>
         /\ probed = <<>>
         /\ tables_info = <<>>
         /\ buckets_info = <<>>
         /\ artifacts = {}
    /\ (pc \notin {"start", "raised"} /\ Lacking(envConfig)) => pc = "returned" /\ ~client
    /\ (pc = "returned") => ~client
    /\ client =>
         /\ IsPrefix(steps, AllSteps)
         /\ pc \in {"done", "raised"} => steps = AllSteps
         /\ pc \notin {"done", "raised"} => ENABLED SnapNext

\* the run completed although every step after the client's creation failed
C9_Witness ==
    /\ pc = "done"
    /\ client
    /\ steps = AllSteps
    /\ tables_info = <<>>
    /\ buckets_info = <<>>
    /\ artifacts = {}

=============================================================================
